---- MODULE Spec2Model ----
(***************************************************************************)
(* A model of the AgGrid element of nicegui-aggrid-enterprise              *)
(* (src/src/nicegui_aggrid_enterprise_Shiftmatic3/aggrid.py).              *)
(*                                                                         *)
(* The server side (the AgGrid class) is translated from aggrid.py.  Each  *)
(* coroutine is split at its single await: a Call step that sends the      *)
(* request and a resume step (Deliver, Expire) that runs the rest of the    *)
(* coroutine body in one atomic step, as asyncio does between two awaits.   *)
(* The client side (the aggrid.js component and the grid library behind it) *)
(* is not part of aggrid.py; it is modelled from the specification.         *)
(***************************************************************************)
EXTENDS Integers, Sequences, FiniteSets, TLC

VARIABLES
    license_key,   \* AgGrid.license_key, the process-wide class attribute
    heap,          \* dict objects by identity: [Refs -> dict]
    props,         \* self._props of each constructed widget
    classes,       \* self._classes of each constructed widget
    outbox,        \* every message the server has sent to the client, in order
    pending,       \* indices of outbox the client has not processed yet
    replies,       \* replies the client has produced: [id, err, value]
    cprops,        \* client side: the props the component last received
    grid,          \* client side: the rendered grid of each widget
    tasks,         \* server side coroutines: [pc, op, widget, arg, req, result, error]
    ctor           \* history: what the host passed to each widget's constructor

vars == <<license_key, heap, props, classes, outbox, pending, replies, cprops, grid, tasks,
          ctor>>

(***************************************************************************)
(* Bounds of the model.                                                    *)
(***************************************************************************)
MaxRows == 2       \* rows of the initial row data
MaxTasks == 2      \* coroutines that may be in flight together
MaxOutbox == 4     \* messages the host may push with update() (FacadeSpec)

\* timeout: float = 1 (seconds), kept here in milliseconds
DefaultTimeout == 1000

(***************************************************************************)
(* Values.  Every JSON / Python value is a record, so that any two values  *)
(* can be compared.                                                        *)
(***************************************************************************)
None == [none |-> TRUE]               \* Python None, JSON null
Undefined == [undefined |-> TRUE]     \* JavaScript undefined (client side only)
List(s) == [list |-> s]
Str(s) == [str |-> s]
Row(i, n) == [id |-> i, name |-> n]

IsList(v) == "list" \in DOMAIN v

Widgets == {"w1", "w2"}
Refs == {"d1", "d2"}
Tasks == 1..MaxTasks
Host == 0                             \* the host application, not a coroutine
Themes == {"balham", "alpine"}
LicenseKeys == {None, Str("K1")}
Timeouts == {1, DefaultTimeout}

\* dict.__setitem__: d[k] = v
Put(d, k, v) == [x \in DOMAIN d \cup {k} |-> IF x = k THEN v ELSE d[x]]

\* the first n rows of the example data
RowId(i) == <<"1", "2", "3", "4">>[i]
FirstRows(n) == [i \in 1..n |-> Row(RowId(i), "a")]

Reverse(s) == [i \in 1..Len(s) |-> s[Len(s) + 1 - i]]

(***************************************************************************)
(* Server side: the AgGrid class.  A server step is a function from the    *)
(* server state s = [heap, props, classes, outbox, tasks] to the next one.  *)
(***************************************************************************)
Server == [heap |-> heap, props |-> props, classes |-> classes,
           outbox |-> outbox, tasks |-> tasks]

NoArg == [name |-> "", row_id |-> "", method |-> ""]
IdleTask == [pc |-> "idle", op |-> "", widget |-> "", arg |-> NoArg,
             timeout |-> 0, req |-> 0, result |-> None, error |-> ""]

Msg(type, w, name, args, p, by) ==
    [type |-> type, widget |-> w, name |-> name, args |-> args, props |-> p, by |-> by]

\* Construct with the options copied into another dict object (dict(options))
Construct_copy(s, w, opts, html_columns, theme, auto_size_columns, key) ==
    LET other == CHOOSE r \in Refs : r # opts IN
    [s EXCEPT !.heap[other] = s.heap[opts],
              !.props = [x \in DOMAIN s.props \cup {w} |->
                            IF x = w
                            THEN [options |-> other,
                                  html_columns |-> html_columns,
                                  auto_size_columns |-> auto_size_columns,
                                  license_key |-> key]
                            ELSE s.props[x]],
              !.classes = [x \in DOMAIN s.classes \cup {w} |->
                            IF x = w THEN <<"nicegui-aggrid", "ag-theme-" \o theme>>
                            ELSE s.classes[x]]]

\* AgGrid.__init__: the options dict is stored by reference, html_columns is
\* copied, the class attribute license_key is read once and stored.
Construct(s, w, opts, html_columns, theme, auto_size_columns, key) ==
    [s EXCEPT !.props = [x \in DOMAIN s.props \cup {w} |->
                            IF x = w
                            THEN [options |-> opts,
                                  html_columns |-> html_columns,
                                  auto_size_columns |-> auto_size_columns,
                                  license_key |-> key]
                            ELSE s.props[x]],
              !.classes = [x \in DOMAIN s.classes \cup {w} |->
                            IF x = w THEN <<"nicegui-aggrid", "ag-theme-" \o theme>>
                            ELSE s.classes[x]]]

\* AgGrid.options: the dict object itself (its identity), not a copy
options(s, w) == s.props[w].options

\* what the element's props look like when they are serialised for the client
PropsView(s, w) ==
    [options |-> s.heap[options(s, w)],
     html_columns |-> s.props[w].html_columns,
     auto_size_columns |-> s.props[w].auto_size_columns,
     license_key |-> s.props[w].license_key]

\* AgGrid.update: super().update() pushes the element with its current props,
\* then run_method("update_grid") tells the component to re-render.  n is how
\* many of the two messages the link takes before it fails (2: no failure).
UpdateMsgs(s, w, by) ==
    << Msg("update", w, "", <<>>, PropsView(s, w), by),
       Msg("run_method", w, "update_grid", <<>>, None, by) >>

\* update that first fills in a missing "rowData" in the options
update_filling_defaults(s, w, by, n) ==
    LET ref == options(s, w)
        s1 == IF "rowData" \in DOMAIN s.heap[ref] THEN s
              ELSE [s EXCEPT !.heap[ref] = Put(s.heap[ref], "rowData", List(<<>>))]
    IN  [s1 EXCEPT !.outbox = s1.outbox \o SubSeq(UpdateMsgs(s1, w, by), 1, n)]

\* update that reads the class attribute license_key again
update_rereading_key(s, w, by, n) ==
    LET s1 == [s EXCEPT !.props[w].license_key = license_key]
    IN  [s1 EXCEPT !.outbox = s1.outbox \o SubSeq(UpdateMsgs(s1, w, by), 1, n)]

update(s, w, by, n) ==
    [s EXCEPT !.outbox = s.outbox \o SubSeq(UpdateMsgs(s, w, by), 1, n)]

\* Element.run_method awaited: one request goes out and the coroutine waits
\* for the reply to it, at most timeout long.
\* run_method that sends its request twice
run_method_resend(s, t, w, name, args, timeout) ==
    [s EXCEPT !.outbox = s.outbox \o << Msg("run_method", w, name, args, None, t),
                                        Msg("run_method", w, name, args, None, t) >>,
              !.tasks[t].pc = "await",
              !.tasks[t].req = Len(s.outbox) + 1,
              !.tasks[t].timeout = timeout]

run_method(s, t, w, name, args, timeout) ==
    [s EXCEPT !.outbox = Append(s.outbox, Msg("run_method", w, name, args, None, t)),
              !.tasks[t].pc = "await",
              !.tasks[t].req = Len(s.outbox) + 1,
              !.tasks[t].timeout = timeout]

run_grid_method(s, t, w, name, args, timeout) ==
    run_method(s, t, w, "run_grid_method", <<name>> \o args, timeout)

run_row_method(s, t, w, row_id, name, args, timeout) ==
    run_method(s, t, w, "run_row_method", <<row_id, name>> \o args, timeout)

\* get_selected_rows up to its await
get_selected_rows(s, t, w) ==
    run_grid_method(s, t, w, "getSelectedRows", <<>>, DefaultTimeout)

\* get_selected_row up to its await
get_selected_row(s, t, w) == get_selected_rows(s, t, w)

Methods == {"all_unsorted", "filtered_unsorted", "filtered_sorted", "leaf"}

API_METHODS(method) ==
    CASE method = "all_unsorted" -> "forEachNode"
      [] method = "filtered_unsorted" -> "forEachNodeAfterFilter"
      [] method = "filtered_sorted" -> "forEachNodeAfterFilterAndSort"
      [] method = "leaf" -> "forEachLeafNode"

\* get_client_data up to its await: client.run_javascript with the script
\* built around API_METHODS[method]
get_client_data(s, t, w, timeout, method) ==
    [s EXCEPT !.outbox = Append(s.outbox,
                  Msg("run_javascript", w, API_METHODS(method), <<>>, None, t)),
              !.tasks[t].pc = "await",
              !.tasks[t].req = Len(s.outbox) + 1,
              !.tasks[t].timeout = timeout]

\* load_client_data up to its await
load_client_data(s, t, w) == get_client_data(s, t, w, DefaultTimeout, "all_unsorted")

\* a coroutine returns a value / raises
Return(s, t, v) == [s EXCEPT !.tasks[t].pc = "done", !.tasks[t].result = v]
Raise(s, t, e) == [s EXCEPT !.tasks[t].pc = "failed", !.tasks[t].error = e]

\* Python truth value of a reply: an empty list and None are false
Truthy(v) == IF IsList(v) THEN Len(v.list) > 0 ELSE v # None

\* rows[0] if len(rows) > 1 else None
get_selected_row_return_single(rows) ==
    IF IsList(rows) /\ Len(rows.list) > 1 THEN rows.list[1] ELSE None

\* get_selected_row after its await: rows[0] if rows else None
get_selected_row_return(rows) == IF Truthy(rows) THEN rows.list[1] ELSE None

\* load_client_data with update() called before the assignment
load_client_data_resume_push_first(s, t, client_row_data, n) ==
    LET w == s.tasks[t].widget
        ref == options(s, w)
        s1 == update(s, w, t, n)
        s2 == [s1 EXCEPT !.heap[ref] = Put(s.heap[ref], "rowData", client_row_data)]
    IN  IF n = 2 THEN Return(s2, t, None) ELSE Raise(s2, t, "TransportError")

\* load_client_data that puts the old row data back when update() fails
load_client_data_resume_rollback(s, t, client_row_data, n) ==
    LET w == s.tasks[t].widget
        ref == options(s, w)
        s1 == [s EXCEPT !.heap[ref] = Put(s.heap[ref], "rowData", client_row_data)]
        s2 == update(s1, w, t, n)
    IN  IF n = 2 THEN Return(s2, t, None)
        ELSE Raise([s2 EXCEPT !.heap[ref] = s.heap[ref]], t, "TransportError")

\* load_client_data after its await: self.options["rowData"] = client_row_data,
\* then self.update(); an update that fails raises out of the coroutine.
load_client_data_resume(s, t, client_row_data, n) ==
    LET w == s.tasks[t].widget
        ref == options(s, w)
        s1 == [s EXCEPT !.heap[ref] = Put(s.heap[ref], "rowData", client_row_data)]
        s2 == update(s1, w, t, n)
    IN  IF n = 2 THEN Return(s2, t, None) ELSE Raise(s2, t, "TransportError")

\* load_client_data that calls update() in a finally clause
load_client_data_raise_then_update(s, t, e) ==
    Raise(update(s, s.tasks[t].widget, t, 2), t, e)

\* the await of load_client_data raises: nothing after it runs
load_client_data_raise(s, t, e) == Raise(s, t, e)

\* the awaited reply arrives: the rest of the coroutine runs
OnReply(s, t, r, n) ==
    LET op == s.tasks[t].op IN
    IF r.err # ""
    THEN IF op = "load_client_data" THEN load_client_data_raise(s, t, r.err)
         ELSE Raise(s, t, r.err)
    ELSE CASE op = "get_selected_row" -> Return(s, t, get_selected_row_return(r.value))
           [] op = "load_client_data" -> load_client_data_resume(s, t, r.value, n)
           [] OTHER -> Return(s, t, r.value)

\* a timeout that sends the request again and goes on waiting
OnTimeout_retry(s, t) ==
    [s EXCEPT !.outbox = Append(s.outbox, s.outbox[s.tasks[t].req]),
              !.tasks[t].req = Len(s.outbox) + 1]

\* the deadline passes first: the await raises TimeoutError, once
OnTimeout(s, t) ==
    IF s.tasks[t].op = "load_client_data"
    THEN load_client_data_raise(s, t, "Timeout")
    ELSE Raise(s, t, "Timeout")
(***************************************************************************)
(* Client side: the aggrid.js component and the grid behind it.  A grid is *)
(* a sequence of row nodes and a sort direction; a group node carries no   *)
(* data.                                                                   *)
(***************************************************************************)
Leaf(d, pass) == [data |-> d, group |-> FALSE, pass |-> pass, selected |-> FALSE]
GroupNode == [data |-> Undefined, group |-> TRUE, pass |-> TRUE, selected |-> FALSE]
EmptyGrid == [nodes |-> <<>>, sortDesc |-> FALSE]

\* the grid the component builds from an options mapping
Render(d) ==
    IF "rowData" \in DOMAIN d /\ IsList(d["rowData"])
    THEN [nodes |-> [i \in 1..Len(d["rowData"].list) |-> Leaf(d["rowData"].list[i], TRUE)],
          sortDesc |-> FALSE]
    ELSE EmptyGrid

IsPass(nd) == nd.pass
IsLeaf(nd) == ~nd.group
IsSelectedLeaf(nd) == nd.selected /\ ~nd.group

\* the nodes an iteration method of the grid API visits, in visit order
Visit(api, g) ==
    CASE api = "forEachNode" -> g.nodes
      [] api = "forEachNodeAfterFilter" -> SelectSeq(g.nodes, IsPass)
      [] api = "forEachNodeAfterFilterAndSort" ->
            IF g.sortDesc THEN Reverse(SelectSeq(g.nodes, IsPass))
            ELSE SelectSeq(g.nodes, IsPass)
      [] api = "forEachLeafNode" -> SelectSeq(g.nodes, IsLeaf)

\* the script with: node => { if (node.data) rowData.push(node.data); }
ClientDataScript_data_only(api, g) ==
    LET visited == SelectSeq(Visit(api, g), LAMBDA nd : nd.data # Undefined)
    IN  List([i \in 1..Len(visited) |-> visited[i].data])

\* the script of get_client_data, run on the client:
\*   const rowData = []; api.<method>(node => rowData.push(node.data)); return rowData;
ClientDataScript(api, g) ==
    LET visited == Visit(api, g)
    IN  List([i \in 1..Len(visited) |-> visited[i].data])

\* JSON encoding of a result on its way back: undefined becomes null
Jsonify(v) ==
    IF v = Undefined THEN None
    ELSE IF IsList(v)
         THEN List([i \in 1..Len(v.list) |->
                       IF v.list[i] = Undefined THEN None ELSE v.list[i]])
         ELSE v

Outcome(g, v, e) == [grid |-> g, value |-> v, err |-> e]

\* the component's run_grid_method: api[name](...args)
GridApi(g, name) ==
    CASE name = "getSelectedRows" ->
            LET sel == SelectSeq(g.nodes, IsSelectedLeaf)
            IN  Outcome(g, List([i \in 1..Len(sel) |-> sel[i].data]), "")
      [] name = "selectAll" ->
            Outcome([g EXCEPT !.nodes = [i \in 1..Len(g.nodes) |->
                        [g.nodes[i] EXCEPT !.selected = ~g.nodes[i].group]]],
                    Undefined, "")
      [] OTHER -> Outcome(g, Undefined, "RemoteExecutionError")

\* the component's run_row_method: api.getRowNode(row_id)[name](...args)
RowApi(g, row_id, name) ==
    LET hits == {i \in 1..Len(g.nodes) :
                    ~g.nodes[i].group /\ g.nodes[i].data # None
                    /\ g.nodes[i].data.id = row_id}
    IN  IF hits = {} THEN Outcome(g, Undefined, "RowNotFound")
        ELSE IF name = "setSelected"
             THEN Outcome([g EXCEPT !.nodes = [i \in 1..Len(g.nodes) |->
                              IF i \in hits THEN [g.nodes[i] EXCEPT !.selected = TRUE]
                              ELSE g.nodes[i]]],
                          Undefined, "")
             ELSE Outcome(g, Undefined, "RemoteExecutionError")

\* what the client does with one request
Execute(m, g) ==
    CASE m.type = "run_javascript" -> Outcome(g, ClientDataScript(m.name, g), "")
      [] m.type = "run_method" /\ m.name = "run_grid_method" -> GridApi(g, m.args[1])
      [] m.type = "run_method" /\ m.name = "run_row_method" ->
            RowApi(g, m.args[1], m.args[2])
      [] OTHER -> Outcome(g, Undefined, "RemoteExecutionError")

\* a message that carries a request id: the server awaits a reply to it
IsRequest(m) ==
    \/ m.type = "run_javascript"
    \/ m.type = "run_method" /\ m.name \in {"run_grid_method", "run_row_method"}

(***************************************************************************)
(* Actions.                                                                *)
(***************************************************************************)
\* a server step s2 takes effect; what it sent is now on its way to the client
Apply(s2) ==
    /\ heap' = s2.heap
    /\ props' = s2.props
    /\ classes' = s2.classes
    /\ outbox' = s2.outbox
    /\ tasks' = s2.tasks
    /\ pending' = pending \cup ((Len(outbox) + 1)..Len(s2.outbox))

InvokeOps == {"run_grid_method", "run_row_method", "get_selected_rows", "get_selected_row"}
Ops == InvokeOps \cup {"get_client_data", "load_client_data"}

\* the host starts a coroutine, one of ops, on a widget; it runs up to its await
StartCall(t, ops) ==
    /\ tasks[t].pc = "idle"
    /\ \A u \in Tasks : u < t => tasks[u].pc # "idle"
    /\ \E w \in DOMAIN props, op \in ops :
        LET s0 == [Server EXCEPT !.tasks[t].op = op, !.tasks[t].widget = w] IN
        \/ /\ op = "run_grid_method"
           /\ \E name \in {"selectAll", "noSuchMethod"}, to \in Timeouts :
                /\ name = "noSuchMethod" => to = DefaultTimeout
                /\ Apply(run_grid_method(
                    [s0 EXCEPT !.tasks[t].arg.name = name], t, w, name, <<>>, to))
        \/ /\ op = "run_row_method"
           /\ \E row_id \in {RowId(1), RowId(MaxRows + 1)} :
                Apply(run_row_method(
                    [s0 EXCEPT !.tasks[t].arg.name = "setSelected",
                               !.tasks[t].arg.row_id = row_id],
                    t, w, row_id, "setSelected", <<>>, DefaultTimeout))
        \/ /\ op = "get_selected_rows"
           /\ Apply(get_selected_rows(s0, t, w))
        \/ /\ op = "get_selected_row"
           /\ Apply(get_selected_row(s0, t, w))
        \/ /\ op = "get_client_data"
           /\ \E method \in Methods :
                Apply(get_client_data(
                    [s0 EXCEPT !.tasks[t].arg.method = method],
                    t, w, DefaultTimeout, method))
        \/ /\ op = "load_client_data"
           /\ Apply(load_client_data(s0, t, w))
    /\ UNCHANGED <<license_key, replies, cprops, grid, ctor>>

\* the reply to the request a coroutine awaits reaches it
Deliver(t) ==
    /\ tasks[t].pc = "await"
    /\ \E r \in replies :
        /\ r.id = tasks[t].req
        /\ \E n \in 0..2 :
            /\ (tasks[t].op # "load_client_data" \/ r.err # "") => n = 2
            /\ Apply(OnReply(Server, t, r, n))
    /\ UNCHANGED <<license_key, replies, cprops, grid, ctor>>

\* the deadline of an awaited request passes
Expire(t) ==
    /\ tasks[t].pc = "await"
    /\ Apply(OnTimeout(Server, t))
    /\ UNCHANGED <<license_key, replies, cprops, grid, ctor>>

\* the client takes one message that reached it
ClientProcess(i) ==
    /\ i \in pending
    /\ pending' = pending \ {i}
    /\ LET m == outbox[i]
           w == m.widget
       IN  \/ /\ m.type = "update"
              /\ cprops' = [cprops EXCEPT ![w] = m.props]
              /\ UNCHANGED <<grid, replies>>
           \/ /\ m.type = "run_method" /\ m.name = "update_grid"
              /\ grid' = [grid EXCEPT ![w] = Render(cprops[w].options)]
              /\ UNCHANGED <<cprops, replies>>
           \/ /\ IsRequest(m)
              /\ m.type = "run_javascript"
              /\ replies' = replies \cup {[id |-> i, err |-> "RemoteExecutionError",
                                            value |-> None]}
              /\ UNCHANGED <<cprops, grid>>
           \/ /\ IsRequest(m)
              /\ LET o == Execute(m, grid[w]) IN
                 /\ grid' = [grid EXCEPT ![w] = o.grid]
                 /\ replies' = replies \cup
                        {[id |-> i, err |-> o.err,
                          value |-> IF o.err = "" THEN Jsonify(o.value) ELSE None]}
              /\ UNCHANGED cprops
    /\ UNCHANGED <<license_key, heap, props, classes, outbox, tasks, ctor>>

\* the position of the first row node that is no group (0: there is none)
FirstLeaf(g) ==
    IF \E i \in 1..Len(g.nodes) : ~g.nodes[i].group
    THEN CHOOSE i \in 1..Len(g.nodes) :
            ~g.nodes[i].group /\ \A j \in 1..(i - 1) : g.nodes[j].group
    ELSE 0

\* the user selects a row in the browser
UserSelect(w, i) ==
    /\ i \in 1..Len(grid[w].nodes)
    /\ ~grid[w].nodes[i].group
    /\ ~grid[w].nodes[i].selected
    /\ grid' = [grid EXCEPT ![w].nodes[i].selected = TRUE]
    /\ UNCHANGED <<license_key, heap, props, classes, outbox, pending, replies, cprops, tasks,
                   ctor>>

\* the user edits a cell of the first row in the browser and leaves edit mode
UserEdit(w, i) ==
    /\ i \in 1..Len(grid[w].nodes)
    /\ ~grid[w].nodes[i].group
    /\ grid[w].nodes[i].data # None
    /\ grid[w].nodes[i].data.name = "a"
    /\ grid' = [grid EXCEPT ![w].nodes[i].data.name = "b"]
    /\ UNCHANGED <<license_key, heap, props, classes, outbox, pending, replies, cprops, tasks,
                   ctor>>

\* the host application changes the options mapping in place, through options
HostMutate(w, k, v) ==
    /\ w \in DOMAIN props
    /\ heap[options(Server, w)] # Put(heap[options(Server, w)], k, v)
    /\ heap' = [heap EXCEPT ![options(Server, w)] = Put(@, k, v)]
    /\ UNCHANGED <<license_key, props, classes, outbox, pending, replies, cprops, grid, tasks,
                   ctor>>

Mutations == {<<"rowSelection", Str("single")>>}

(***************************************************************************)
(* One widget on a page, the coroutines on it, the client, the user.       *)
(* Spec: the remote method calls and the selection queries, on a grid whose *)
(* rows the user selects.  ReadSpec: get_client_data on a grid the user has *)
(* grouped, filtered or sorted and edits.  SyncSpec: load_client_data on a  *)
(* grid the user edits, with options the host changes.  CallSpec: every     *)
(* call, on a grid nobody touches.                                         *)
(***************************************************************************)
\* the grid after the user has grouped, filtered and sorted it
GridConfigs == {"plain", "grouped", "filtered", "sorted", "all"}
InitGrid(n, c) ==
    [nodes |-> (IF c \in {"grouped", "all"} THEN <<GroupNode>> ELSE <<>>) \o
               [i \in 1..n |->
                   Leaf(Row(RowId(i), "a"), ~(i = 1 /\ c \in {"filtered", "all"}))],
     sortDesc |-> c \in {"sorted", "all"}]

\* the state after AgGrid({"rowData": <the first n rows>}) has been constructed,
\* shown, and its grid brought into configuration c by the user
InitWith(n, c) ==
    /\ license_key = None
    /\ heap = [r \in Refs |->
                  IF r = "d1" THEN [k \in {"rowData"} |-> List(FirstRows(n))]
                  ELSE [k \in {} |-> None]]
    /\ grid = [w \in {"w1"} |-> InitGrid(n, c)]
    /\ cprops = [w \in {"w1"} |->
                    [options |-> [k \in {"rowData"} |-> List(FirstRows(n))],
                     html_columns |-> <<>>, auto_size_columns |-> TRUE,
                     license_key |-> None]]
    /\ props = [w \in {"w1"} |->
                  [options |-> "d1", html_columns |-> <<>>, auto_size_columns |-> TRUE,
                   license_key |-> None]]
    /\ classes = [w \in {"w1"} |-> <<"nicegui-aggrid", "ag-theme-balham">>]
    /\ ctor = [w \in {"w1"} |-> [options |-> "d1", key |-> None]]
    /\ outbox = <<>>
    /\ pending = {}
    /\ replies = {}
    /\ tasks = [t \in Tasks |-> IdleTask]

Init == \E n \in 0..MaxRows : InitWith(n, "plain")

Next ==
    \/ \E t \in Tasks : StartCall(t, InvokeOps)
    \/ \E t \in Tasks : Deliver(t)
    \/ \E t \in Tasks : Expire(t)
    \/ \E i \in pending : ClientProcess(i)
    \/ \E w \in DOMAIN grid, i \in 1..MaxRows : UserSelect(w, i)

Spec == Init /\ [][Next]_vars

ReadInit == \E n \in 0..MaxRows, c \in GridConfigs : (n = 0 => c = "plain") /\ InitWith(n, c)

ReadNext ==
    \/ \E t \in Tasks : StartCall(t, {"get_client_data"})
    \/ \E t \in Tasks : Deliver(t)
    \/ \E t \in Tasks : Expire(t)
    \/ \E i \in pending : ClientProcess(i)
    \/ \E w \in DOMAIN grid : UserEdit(w, FirstLeaf(grid[w]))

ReadSpec == ReadInit /\ [][ReadNext]_vars

SyncInit == \E c \in {"plain", "grouped"} : InitWith(MaxRows, c)

SyncNext ==
    \/ \E t \in Tasks : StartCall(t, {"load_client_data"})
    \/ \E t \in Tasks : Deliver(t)
    \/ \E t \in Tasks : Expire(t)
    \/ \E i \in pending : ClientProcess(i)
    \/ \E w \in DOMAIN grid : UserEdit(w, FirstLeaf(grid[w]))
    \/ \E w \in DOMAIN props, m \in Mutations : HostMutate(w, m[1], m[2])

SyncSpec == SyncInit /\ [][SyncNext]_vars

CallInit == InitWith(MaxRows, "plain")

CallNext ==
    \/ \E t \in Tasks : StartCall(t, Ops)
    \/ \E t \in Tasks : Deliver(t)
    \/ \E t \in Tasks : Expire(t)
    \/ \E i \in pending : ClientProcess(i)

CallSpec == CallInit /\ [][CallNext]_vars

(***************************************************************************)
(* FacadeSpec: the host sets the license key, constructs widgets over      *)
(* options mappings it holds, changes the mappings in place and calls      *)
(* update().                                                               *)
(***************************************************************************)
\* AgGrid.license_key = k
SetLicenseKey(k) ==
    /\ license_key # k
    /\ license_key' = k
    /\ UNCHANGED <<heap, props, classes, outbox, pending, replies, cprops, grid, tasks, ctor>>

\* the keyword arguments the host constructs a widget with: the defaults, or
\* html_columns=[0], theme="alpine", auto_size_columns=False
CtorArgs == {<<<<>>, "balham", TRUE>>, <<<<0>>, "alpine", FALSE>>}

\* AgGrid(opts, html_columns=..., theme=..., auto_size_columns=...); the page
\* then shows the new element with the props it was constructed with
NewWidget(w, opts, kw) ==
    /\ w \notin DOMAIN props
    /\ LET s2 == Construct(Server, w, opts, kw[1], kw[2], kw[3], license_key) IN
       /\ Apply(s2)
       /\ cprops' = [x \in DOMAIN cprops \cup {w} |->
                        IF x = w THEN PropsView(s2, w) ELSE cprops[x]]
       /\ grid' = [x \in DOMAIN grid \cup {w} |->
                        IF x = w THEN Render(s2.heap[options(s2, w)]) ELSE grid[x]]
    /\ ctor' = [x \in DOMAIN ctor \cup {w} |->
                    IF x = w THEN [options |-> opts, key |-> license_key] ELSE ctor[x]]
    /\ UNCHANGED <<license_key, replies>>

\* the host changes, in place, a mapping it holds (whether or not a widget was
\* constructed over it)
MutateDict(ref, k, v) ==
    /\ heap[ref] # Put(heap[ref], k, v)
    /\ heap' = [heap EXCEPT ![ref] = Put(@, k, v)]
    /\ UNCHANGED <<license_key, props, classes, outbox, pending, replies, cprops, grid, tasks,
                   ctor>>

\* the host calls update() on a widget
HostUpdate(w, n) ==
    /\ w \in DOMAIN props
    /\ Len(outbox) + 2 <= MaxOutbox
    /\ Apply(update(Server, w, Host, n))
    /\ UNCHANGED <<license_key, replies, cprops, grid, ctor>>

FacadeInit ==
    /\ license_key = None
    /\ \E n \in 0..MaxRows :
          heap = [r \in Refs |->
                    IF r = "d1" THEN [k \in {"rowData"} |-> List(FirstRows(n))]
                    ELSE [k \in {} |-> None]]
    /\ props = [w \in {} |-> None]
    /\ classes = [w \in {} |-> <<>>]
    /\ ctor = [w \in {} |-> None]
    /\ cprops = [w \in {} |-> None]
    /\ grid = [w \in {} |-> EmptyGrid]
    /\ outbox = <<>>
    /\ pending = {}
    /\ replies = {}
    /\ tasks = [t \in Tasks |-> IdleTask]

FacadeNext ==
    \/ \E k \in LicenseKeys : SetLicenseKey(k)
    \/ \E w \in Widgets, opts \in Refs, kw \in CtorArgs : NewWidget(w, opts, kw)
    \/ \E w \in DOMAIN props, m \in Mutations : HostMutate(w, m[1], m[2])
    \/ \E ref \in Refs, m \in Mutations : MutateDict(ref, m[1], m[2])
    \/ \E w \in DOMAIN props, n \in 0..2 : HostUpdate(w, n)

FacadeSpec == FacadeInit /\ [][FacadeNext]_vars
(***************************************************************************)
(* Properties.                                                             *)
(***************************************************************************)
Finished(t) == tasks[t].pc \in {"done", "failed"}
HasReply(t) == \E r \in replies : r.id = tasks[t].req
ReplyTo(t) == CHOOSE r \in replies : r.id = tasks[t].req
\* the requests a coroutine has sent
RequestsBy(t) == {i \in DOMAIN outbox : outbox[i].by = t /\ IsRequest(outbox[i])}
\* the update signals a coroutine has sent
UpdatesBy(t) == {i \in DOMAIN outbox : outbox[i].by = t /\ ~IsRequest(outbox[i])}
HasName(d, nm) == "name" \in DOMAIN d /\ d.name = nm

\* a reply that is a finite sequence of records (no null among them)
IsRecords(v) == IsList(v) /\ \A j \in 1..Len(v.list) : v.list[j] # None

\* C1: for a reply to getSelectedRows that is a sequence of records,
\* get_selected_row returns None exactly when the reply is the empty list and
\* otherwise the first element of the reply (the reply is what
\* get_selected_rows returns); it sends exactly one request, a getSelectedRows
\* invocation.
C1_SelectedRow ==
    \A t \in Tasks :
        /\ (tasks[t].op = "get_selected_rows" /\ tasks[t].pc = "done") =>
                tasks[t].result = ReplyTo(t).value
        /\ (tasks[t].op = "get_selected_row" /\ tasks[t].pc = "done") =>
                LET R == ReplyTo(t).value IN
                /\ IsList(R)
                /\ IsRecords(R) => (tasks[t].result = None <=> R.list = <<>>)
                /\ (R.list # <<>> => tasks[t].result = R.list[1])
                /\ RequestsBy(t) = {tasks[t].req}
                /\ outbox[tasks[t].req].name = "run_grid_method"
                /\ outbox[tasks[t].req].args = <<"getSelectedRows">>

C1_Witness ==
    \E t, u \in Tasks :
        /\ tasks[t].op = "get_selected_row" /\ tasks[t].pc = "done"
        /\ tasks[u].op = "get_selected_row" /\ tasks[u].pc = "done"
        /\ tasks[t].result = None
        /\ tasks[u].result # None

\* C2: the step that completes load_client_data leaves the options mapping
\* with "rowData" equal to the list its own all_unsorted read returned, every
\* other key and every other mapping as before, and sends the update signal
\* with the options as they are after the overwrite.
C2_LoadCompletes ==
    [][\A t \in Tasks :
        (tasks[t].op = "load_client_data" /\ tasks[t].pc = "await"
            /\ tasks'[t].pc = "done") =>
          LET ref == props[tasks[t].widget].options
              data == ReplyTo(t).value
              L == Len(outbox)
          IN  /\ outbox[tasks[t].req].type = "run_javascript"
              /\ outbox[tasks[t].req].name = "forEachNode"
              /\ DOMAIN heap'[ref] = DOMAIN heap[ref] \cup {"rowData"}
              /\ heap'[ref]["rowData"] = data
              /\ \A k \in DOMAIN heap[ref] \ {"rowData"} : heap'[ref][k] = heap[ref][k]
              /\ \A r \in Refs \ {ref} : heap'[r] = heap[r]
              /\ Len(outbox') = L + 2
              /\ SubSeq(outbox', 1, L) = outbox
              /\ outbox'[L + 1].type = "update"
              /\ outbox'[L + 1].widget = tasks[t].widget
              /\ outbox'[L + 1].props.options = heap'[ref]
              /\ outbox'[L + 2].name = "update_grid"
      ]_vars

C2_Witness ==
    \E t \in Tasks :
        /\ tasks[t].op = "load_client_data" /\ tasks[t].pc = "done"
        /\ \E i \in UpdatesBy(t) :
            /\ outbox[i].type = "update"
            /\ outbox[i].props.options["rowData"] = ReplyTo(t).value
            /\ "rowSelection" \in DOMAIN outbox[i].props.options
            /\ \E j \in 1..Len(ReplyTo(t).value.list) :
                    HasName(ReplyTo(t).value.list[j], "b")

\* C3: a step in which update() sends anything leaves every options mapping,
\* the props and the classes of every widget and the license key as they
\* were; the element message carries the options and flags as they are at the
\* call, and an update() right after a complete update() of the same widget
\* with the options unchanged sends the same two messages again.
C3_UpdateFrame ==
    [][Len(outbox') > Len(outbox) =>
          LET L == Len(outbox)
              m == outbox'[L + 1]
              w == m.widget
          IN  /\ heap' = heap
              /\ props' = props
              /\ classes' = classes
              /\ license_key' = license_key
              /\ SubSeq(outbox', 1, L) = outbox
              /\ m.type = "update"
              /\ m.props.options = heap[props[w].options]
              /\ m.props.html_columns = props[w].html_columns
              /\ m.props.auto_size_columns = props[w].auto_size_columns
              /\ m.props.license_key = props[w].license_key
              /\ Len(outbox') = L + 2 =>
                    /\ outbox'[L + 2].type = "run_method"
                    /\ outbox'[L + 2].name = "update_grid"
              /\ (/\ L >= 2
                  /\ Len(outbox') = L + 2
                  /\ outbox[L - 1].type = "update"
                  /\ outbox[L - 1].widget = w
                  /\ outbox[L - 1].props.options = heap[props[w].options]
                  /\ outbox[L].name = "update_grid")
                    => SubSeq(outbox', L + 1, L + 2) = SubSeq(outbox, L - 1, L)
      ]_vars

C3_Witness ==
    /\ Len(outbox) = 4
    /\ outbox[1].type = "update"
    /\ "rowSelection" \in DOMAIN outbox[1].props.options
    /\ outbox[2].name = "update_grid"
    /\ outbox[3] = outbox[1]
    /\ outbox[4] = outbox[2]

\* C4: every call sends exactly one request; a call that has ended while the
\* client has produced no reply to its request has failed with Timeout and
\* returned no value; while a call waits its deadline can expire, and the
\* step that ends an unanswered wait fails the call with Timeout and sends
\* nothing (no retry); an ended call stays as it ended.
C4_TimeoutOnly ==
    /\ [](\A t \in Tasks :
            /\ tasks[t].pc # "idle" => Cardinality(RequestsBy(t)) = 1
            /\ (Finished(t) /\ ~HasReply(t)) =>
                    /\ tasks[t].pc = "failed"
                    /\ tasks[t].error = "Timeout"
                    /\ tasks[t].result = None
            /\ tasks[t].pc = "await" => ENABLED Expire(t))
    /\ [][\A t \in Tasks :
            /\ (tasks[t].pc = "await" /\ ~HasReply(t) /\ tasks'[t].pc # "await") =>
                    /\ tasks'[t].pc = "failed"
                    /\ tasks'[t].error = "Timeout"
                    /\ outbox' = outbox
            /\ Finished(t) => tasks'[t] = tasks[t]
        ]_vars

C4_Witness ==
    \E t, u \in Tasks :
        /\ tasks[t].pc = "failed" /\ tasks[t].error = "Timeout"
        /\ tasks[t].timeout = 1
        /\ ~HasReply(t)
        /\ tasks[u].op = "run_row_method"
        /\ tasks[u].pc = "failed" /\ tasks[u].error = "Timeout"
        /\ ~HasReply(u)

\* C5: the step in which load_client_data fails in its update push leaves the
\* options mapping with "rowData" equal to the list just read (the overwrite
\* is not undone) and every other key as before.
C5_NoRollback ==
    [][\A t \in Tasks :
        (tasks[t].op = "load_client_data" /\ tasks[t].pc = "await"
            /\ tasks'[t].pc = "failed" /\ tasks'[t].error = "TransportError") =>
          LET ref == props[tasks[t].widget].options IN
          /\ HasReply(t)
          /\ ReplyTo(t).err = ""
          /\ heap'[ref] = Put(heap[ref], "rowData", ReplyTo(t).value)
          /\ Len(outbox') < Len(outbox) + 2
      ]_vars

C5_Witness ==
    /\ tasks[1].op = "load_client_data"
    /\ tasks[1].pc = "failed" /\ tasks[1].error = "TransportError"
    /\ \A u \in Tasks \ {1} : tasks[u].pc = "idle"
    /\ heap["d1"]["rowData"] = ReplyTo(1).value
    /\ \E j \in 1..Len(heap["d1"]["rowData"].list) :
            HasName(heap["d1"]["rowData"].list[j], "b")
    /\ UpdatesBy(1) = {}

\* the requests of a coroutine that the client has executed
Executed(t) == {i \in RequestsBy(t) : i \notin pending}
TimedOut(t) == tasks[t].pc = "failed" /\ tasks[t].error = "Timeout"

\* C6: after a call has timed out its request, if the client has not taken
\* it yet, can still be executed; the client executes at most one request per
\* call, at most once, with the same effect on the grid as for a call that is
\* still waiting; the outcome stays Timeout; the step that times a call out
\* changes no other call, no message in flight and no reply, and a waiting
\* call whose reply is there can take it.
C6_TimeoutIsLocal ==
    /\ [](\A t \in Tasks :
            /\ (TimedOut(t) /\ tasks[t].req \in pending) =>
                    ENABLED ClientProcess(tasks[t].req)
            /\ Cardinality(Executed(t)) <= 1
            /\ Cardinality({r \in replies : r.id \in RequestsBy(t)}) <= 1
            /\ (tasks[t].pc = "await" /\ HasReply(t)) => ENABLED Deliver(t))
    /\ [][\A t \in Tasks :
            /\ TimedOut(t) => tasks'[t] = tasks[t]
            /\ (TimedOut(t) /\ tasks[t].req \in pending /\ tasks[t].req \notin pending'
                    /\ tasks[t].op # "load_client_data") =>
                  grid'[tasks[t].widget] =
                      Execute(outbox[tasks[t].req], grid[tasks[t].widget]).grid
            /\ (tasks[t].pc = "await" /\ tasks'[t].pc = "failed"
                    /\ tasks'[t].error = "Timeout") =>
                  /\ \A u \in Tasks \ {t} : tasks'[u] = tasks[u]
                  /\ pending' = pending
                  /\ replies' = replies
                  /\ grid' = grid
        ]_vars
    /\ [][\A i \in DOMAIN outbox : i \notin pending => i \notin pending']_vars

C6_Witness ==
    \E t, u \in Tasks :
        /\ TimedOut(t)
        /\ tasks[t].op = "run_grid_method" /\ tasks[t].arg.name = "selectAll"
        /\ Executed(t) = {tasks[t].req}
        /\ tasks[u].op = "get_selected_rows" /\ tasks[u].pc = "done"
        /\ tasks[u].req > tasks[t].req
        /\ Len(tasks[u].result.list) = MaxRows

\* the iteration method each traversal policy stands for
PolicyApi(method) ==
    CASE method = "all_unsorted" -> "forEachNode"
      [] method = "filtered_unsorted" -> "forEachNodeAfterFilter"
      [] method = "filtered_sorted" -> "forEachNodeAfterFilterAndSort"
      [] method = "leaf" -> "forEachLeafNode"
MethodOf(t) ==
    IF tasks[t].op = "load_client_data" THEN "all_unsorted" ELSE tasks[t].arg.method

C10_ReadFails ==
    /\ [](\A t \in Tasks :
            (tasks[t].op = "load_client_data" /\ tasks[t].pc = "failed"
                /\ tasks[t].error # "TransportError") => UpdatesBy(t) = {})
    /\ [][\A t \in Tasks :
            /\ (tasks[t].pc = "idle" /\ tasks'[t].op = "load_client_data") =>
                    heap' = heap
            /\ (tasks[t].op = "load_client_data" /\ tasks[t].pc = "await"
                    /\ tasks'[t].pc = "failed"
                    /\ tasks'[t].error # "TransportError") =>
                  /\ heap' = heap
                  /\ outbox' = outbox
                  /\ \/ tasks'[t].error = "Timeout"
                     \/ /\ HasReply(t)
                        /\ ReplyTo(t).err # ""
                        /\ tasks'[t].error = ReplyTo(t).err
        ]_vars

C10_Witness ==
    \E t, u \in Tasks :
        /\ tasks[t].op = "load_client_data" /\ tasks[u].op = "load_client_data"
        /\ tasks[t].pc = "failed" /\ tasks[t].error = "Timeout"
        /\ tasks[u].pc = "failed" /\ tasks[u].error = "RemoteExecutionError"
        /\ heap["d1"]["rowData"] = List(FirstRows(MaxRows))
        /\ "rowSelection" \in DOMAIN heap["d1"]

\* C7: a widget's options are the very mapping its constructor was given, so
\* reading them back right after construction, and at any time later, yields
\* what that mapping holds; an update() sends the mapping as it is at the call,
\* with every change the host has made to it in place.
C7_OptionsByReference ==
    /\ [](\A w \in DOMAIN props :
            /\ options(Server, w) = ctor[w].options
            /\ heap[options(Server, w)] = heap[ctor[w].options])
    /\ [][\A w \in DOMAIN props' \ DOMAIN props :
            heap'[props'[w].options] = heap[ctor'[w].options]]_vars
    /\ [][Len(outbox') > Len(outbox) =>
            LET m == outbox'[Len(outbox) + 1] IN
            m.type = "update" => m.props.options = heap[ctor[m.widget].options]]_vars

C7_Witness ==
    \E w \in DOMAIN props, i \in DOMAIN outbox :
        /\ ctor[w].options = "d2"
        /\ heap["d2"] = [k \in {"rowSelection"} |-> Str("single")]
        /\ outbox[i].type = "update" /\ outbox[i].widget = w
        /\ outbox[i].props.options = heap["d2"]

\* C8: each widget holds the license key the process had when the widget was
\* constructed; no later step changes a widget's license key, and every
\* element message of a widget carries that key.
C8_LicenseKeyCopied ==
    /\ [](\A w \in DOMAIN props : props[w].license_key = ctor[w].key)
    /\ [](\A i \in DOMAIN outbox :
            outbox[i].type = "update" =>
                outbox[i].props.license_key = ctor[outbox[i].widget].key)
    /\ [][\A w \in DOMAIN props : props'[w].license_key = props[w].license_key]_vars

C8_Witness ==
    \E w, x \in DOMAIN props, i \in DOMAIN outbox :
        /\ props[w].license_key = Str("K1")
        /\ props[x].license_key = None
        /\ license_key = None
        /\ outbox[i].type = "update" /\ outbox[i].widget = w
        /\ outbox[i].props.license_key = Str("K1")
        /\ Len(outbox) = i
====
